---- MODULE Spec2Model ----
(***************************************************************************)
(* Model of examples/mis-integration/mis_integration.py: the two API       *)
(* calls clients_change_list and client_add, each a straight-line          *)
(* procedure build -> _send_request -> _check_msa/_spresult -> extract.    *)
(* Strings that the code converts (int(), str.strip(), f"{int}") are       *)
(* sequences of one-character strings; the other texts are opaque strings. *)
(* An optional XML element is a sequence of length 0 (absent) or 1.        *)
(***************************************************************************)
EXTENDS Integers, Sequences, FiniteSets, TLC

VARIABLES
    op,         \* the function being called
    pc,         \* position of the call in the code
    filial_id,  \* argument of clients_change_list (optional value)
    patient,    \* argument of client_add (optional value)
    xml_body,   \* the request document built by the call (optional value)
    headers,    \* HTTP request headers of _send_request
    conn,       \* the connection / response handle: "none", "open", "closed"
    attempts,   \* number of urlopen calls made
    raw,        \* bytes read from the response (optional value)
    root,       \* parsed response document (optional value)
    ok,         \* local ok
    result,     \* local result
    comment,    \* local comment
    pcode,      \* local pcode of client_add
    changes,    \* local changes of clients_change_list
    ret,        \* value returned to the caller (optional value)
    error,      \* exception leaving the call, "" when none
    stdout,     \* lines printed
    trace       \* positions visited so far, in order

vars == <<op, pc, filial_id, patient, xml_body, headers, conn, attempts, raw,
          root, ok, result, comment, pcode, changes, ret, error, stdout, trace>>

----------------------------------------------------------------------------
(* Bounds of the explored inputs *)

MaxTextLen == 2      \* longest SPRESULT / child text in a response
MaxChanges == 2      \* most CLIENT_CHANGE_INFO elements in a response
MaxOptSupplied == 1  \* most optional keys a patient record supplies
MaxFilial == 11      \* largest branch id passed to clients_change_list

----------------------------------------------------------------------------
(* Configuration constants of the script *)

EXTERNAL_SYSTEM_ID == "CRM_IDEAV"
CLINIC_HOST == "demo.infoclinica.ru"
FILIAL_ID == 1
SENTINEL == 0 - 999

None == <<>>         \* Python None: an optional value is <<>> or <<v>>

----------------------------------------------------------------------------
(* Character strings *)

Digits == <<"0", "1", "2", "3", "4", "5", "6", "7", "8", "9">>
Alphabet == {"0", "1", "-", " ", "x"}

IsDigit(c) == \E i \in 1..10 : Digits[i] = c
DigitVal(c) == (CHOOSE i \in 1..10 : Digits[i] = c) - 1

Texts(n) == UNION {[1..k -> Alphabet] : k \in 0..n}

RECURSIVE LStrip(_)
LStrip(s) == IF s # <<>> /\ Head(s) = " " THEN LStrip(Tail(s)) ELSE s

RECURSIVE RStrip(_)
RStrip(s) == IF s # <<>> /\ s[Len(s)] = " "
             THEN RStrip(SubSeq(s, 1, Len(s) - 1)) ELSE s

\* str.strip()
Strip(s) == RStrip(LStrip(s))

RECURSIVE NatStr(_)
NatStr(n) == IF n < 10 THEN <<Digits[n + 1]>>
             ELSE NatStr(n \div 10) \o <<Digits[(n % 10) + 1]>>

\* f"{n}" for an int n
Str(n) == IF n < 0 THEN <<"-">> \o NatStr(0 - n) ELSE NatStr(n)

RECURSIVE DigitsVal(_)
DigitsVal(s) == IF s = <<>> THEN 0
                ELSE 10 * DigitsVal(SubSeq(s, 1, Len(s) - 1)) + DigitVal(s[Len(s)])

\* int(s) for a str s: surrounding whitespace ignored, optional sign, then
\* one or more decimal digits; anything else raises ValueError.
PyInt(s) ==
    LET t == Strip(s)
        signed == t # <<>> /\ Head(t) \in {"-", "+"}
        d == IF signed THEN Tail(t) ELSE t
    IN  IF d # <<>> /\ \A i \in 1..Len(d) : IsDigit(d[i])
        THEN [raised |-> FALSE,
              value |-> IF signed /\ Head(t) = "-" THEN 0 - DigitsVal(d) ELSE DigitsVal(d)]
        ELSE [raised |-> TRUE, value |-> 0]

----------------------------------------------------------------------------
(* Response documents, as ElementTree sees them after parsing *)

OutTags == {"CLIENTS_CHANGE_LIST_OUT", "CLIENT_ADD_OUT"}

Opt1(S) == {<<>>} \cup {<<x>> : x \in S}

OutSections ==
    [tag : OutTags, SPRESULT : Opt1(Texts(MaxTextLen)),
     SPCOMMENT : Opt1({"dup"}), PCODE : Opt1({"P7"})]

\* child.text of a change field: None, or a text with surrounding whitespace
ChildTexts == Opt1({<<" ", "1">>})
ChangeNodes == [CHANGEID : ChildTexts]
ChangeLists == UNION {[1..k -> ChangeNodes] : k \in 0..MaxChanges}

Documents ==
    [MSA1 : Opt1({"AA", "AE"}), MSA3 : Opt1({"rejected"}),
     OUT : Opt1(OutSections), CHANGES : ChangeLists]

\* Element.findtext(path, default) on an optional element
findtext(el, default) == IF el = <<>> THEN default ELSE el[1]

\* the section root.find(f".//{out_tag}") selects, as an optional element
Section(doc, out_tag) ==
    IF doc.OUT # <<>> /\ doc.OUT[1].tag = out_tag THEN doc.OUT ELSE <<>>

\* root.findtext(f".//{out_tag}/{field}", default)
findfield(doc, out_tag, field, default) ==
    IF Section(doc, out_tag) = <<>> THEN default
    ELSE findtext(Section(doc, out_tag)[1][field], default)

----------------------------------------------------------------------------
(* Envelope construction *)

Timestamps == {"20261105120000"}   \* values of _now_ts()
MsgIds == {"0123456789abcdef0123"} \* values of _msg_id()

FilialIds == (0 - 1)..MaxFilial

\* _build_msh_xml with a truthiness test instead of "is not None"
build_msh_xml_truthy(msg_type, filial, ts, id) ==
    [MSH3 |-> EXTERNAL_SYSTEM_ID, MSH7 |-> ts, MSG1 |-> "WEB", MSG2 |-> msg_type,
     MSH10 |-> id, MSH18 |-> "UTF-8",
     MSH99 |-> IF filial # None /\ filial[1] # 0 THEN <<Str(filial[1])>> ELSE <<>>]

\* _build_msh_xml(msg_type, filial_id): MSH99 is the optional MSH.99 element
build_msh_xml(msg_type, filial, ts, id) ==
    [MSH3 |-> EXTERNAL_SYSTEM_ID, MSH7 |-> ts, MSG1 |-> "WEB", MSG2 |-> msg_type,
     MSH10 |-> id, MSH18 |-> "UTF-8",
     MSH99 |-> IF filial # None THEN <<Str(filial[1])>> ELSE <<>>]

RequiredKeys == {"LASTNAME", "FIRSTNAME", "BDATE"}
OptionalKeys == {"MIDNAME", "EMAIL", "PHONE", "GENDER", "SNILS", "NSP",
                 "CHECKMODE", "REFUSECALL", "REFUSESMS"}
Values == {"", "v"}

\* the default record of the script (values transliterated)
TEST_PATIENT ==
    [k \in {"LASTNAME", "FIRSTNAME", "MIDNAME", "EMAIL", "PHONE", "BDATE",
            "GENDER", "CHECKMODE"} |->
        CASE k = "LASTNAME" -> "Testov"
          [] k = "FIRSTNAME" -> "Test"
          [] k = "MIDNAME" -> "Testovich"
          [] k = "EMAIL" -> "test@example.com"
          [] k = "PHONE" -> "+7(999)000-00-00"
          [] k = "BDATE" -> "19900101"
          [] k = "GENDER" -> "1"
          [] k = "CHECKMODE" -> "1"]

\* patient dictionaries: any subset of the required keys, few optional keys
Patients ==
    UNION {[R \cup O -> Values] :
             R \in SUBSET RequiredKeys,
             O \in {X \in SUBSET OptionalKeys : Cardinality(X) <= MaxOptSupplied}}

\* _opt with a membership test instead of a truthiness test
opt_if_supplied(p, key) ==
    IF key \in DOMAIN p THEN <<[tag |-> key, text |-> p[key]]>> ELSE <<>>

\* _opt(key): the element, or nothing when patient.get(key, "") is falsy
opt(p, key) ==
    LET val == IF key \in DOMAIN p THEN p[key] ELSE ""
    IN  IF val # "" THEN <<[tag |-> key, text |-> val]>> ELSE <<>>

\* the children of CLIENT_ADD_IN, in document order
client_add_in(p) ==
    <<[tag |-> "LASTNAME", text |-> p["LASTNAME"]]>>
    \o <<[tag |-> "FIRSTNAME", text |-> p["FIRSTNAME"]]>>
    \o opt(p, "MIDNAME") \o opt(p, "EMAIL") \o opt(p, "PHONE")
    \o <<[tag |-> "BDATE", text |-> p["BDATE"]]>>
    \o opt(p, "GENDER") \o opt(p, "SNILS") \o opt(p, "NSP")
    \o opt(p, "CHECKMODE") \o opt(p, "REFUSECALL") \o opt(p, "REFUSESMS")

\* patient['LASTNAME'] etc. raise KeyError when the key is missing
RaisesKeyError(p) == ~(RequiredKeys \subseteq DOMAIN p)

----------------------------------------------------------------------------
(* Response validation *)

\* _check_msa that only rejects the status "AE"
check_msa_not_AE(doc) == findtext(doc.MSA1, "") # "AE"

\* _check_msa(root, method): TRUE iff MSA.1 is "AA"
check_msa(doc) == findtext(doc.MSA1, "") = "AA"

\* _spresult without the "or -999" fallback and with default "0"
spresult_no_default(doc, out_tag) ==
    LET txt == findfield(doc, out_tag, "SPRESULT", <<"0">>)
        conv == PyInt(txt)
    IN  [raised |-> conv.raised, result |-> conv.value,
         comment |-> findfield(doc, out_tag, "SPCOMMENT", "")]

\* _spresult(root, out_tag): int(findtext(.., "-999") or -999), findtext(.., "")
spresult(doc, out_tag) ==
    LET txt == findfield(doc, out_tag, "SPRESULT", Str(SENTINEL))
        conv == IF txt = <<>> THEN [raised |-> FALSE, value |-> SENTINEL]
                ELSE PyInt(txt)
    IN  [raised |-> conv.raised, result |-> conv.value,
         comment |-> findfield(doc, out_tag, "SPCOMMENT", "")]

\* the test of line 192 with "or" in place of "and"
populate_either(is_ok, res) == is_ok \/ res = 1

\* line 192: the list is populated only if ok and result == 1
populate(is_ok, res) == is_ok /\ res = 1

\* lines 193-198: one dict per CLIENT_CHANGE_INFO, child texts stripped
extract_changes(doc) ==
    [i \in 1..Len(doc.CHANGES) |->
        [CHANGEID |-> Strip(findtext(doc.CHANGES[i].CHANGEID, <<>>))]]

----------------------------------------------------------------------------
(* The calls *)

CCL == "clients_change_list"
ADD == "client_add"

\* inputs of the calls that are followed through the network exchange
CallFilials == {FILIAL_ID}
CallPatients == {None, <<[k \in RequiredKeys \ {"LASTNAME"} |-> "v"]>>}

\* inputs of the calls that are followed through envelope construction
BuildFilials == FilialIds
BuildPatients == {None} \cup {<<p>> : p \in Patients}

HttpStatus == {404, 500}

\* what resp.read() / exc.read() can deliver
Bodies ==
    {[kind |-> "undecodable", doc |-> <<>>], [kind |-> "malformed", doc |-> <<>>]}
    \cup {[kind |-> "xml", doc |-> <<d>>] : d \in Documents}

Echo(line, val) == stdout' = Append(stdout, [line |-> line, val |-> val])

Goto(p) == pc' = p /\ trace' = Append(trace, p)

Raise(e) == Goto("raised") /\ error' = e

Init ==
    /\ op = "" /\ pc = "idle" /\ filial_id = None /\ patient = None
    /\ xml_body = None /\ headers = {} /\ conn = "none" /\ attempts = 0
    /\ raw = None /\ root = None /\ ok = FALSE /\ result = 0 /\ comment = ""
    /\ pcode = "" /\ changes = <<>> /\ ret = None /\ error = ""
    /\ stdout = <<>> /\ trace = <<>>

\* clients_change_list(filial_id) is called
CallClientsChangeList(F) ==
    /\ pc = "idle"
    /\ \E f \in F : filial_id' = <<f>>
    /\ op' = CCL
    /\ Goto("build")
    /\ UNCHANGED <<patient, xml_body, headers, conn, attempts, raw, root, ok,
                   result, comment, pcode, changes, ret, error, stdout>>

\* client_add(patient) is called
CallClientAdd(P) ==
    /\ pc = "idle"
    /\ \E p \in P : patient' = p
    /\ op' = ADD
    /\ Goto("build")
    /\ UNCHANGED <<filial_id, xml_body, headers, conn, attempts, raw, root, ok,
                   result, comment, pcode, changes, ret, error, stdout>>

\* clients_change_list, lines 172-182
BuildChangeList ==
    /\ pc = "build" /\ op = CCL
    /\ \E ts \in Timestamps, id \in MsgIds :
         xml_body' = <<[tag |-> "WEB_CLIENTS_CHANGE_LIST",
                        MSH |-> build_msh_xml("CLIENTS_CHANGE_LIST", filial_id, ts, id),
                        BODY |-> <<>>]>>
    /\ Echo("REQUEST", CCL)
    /\ Goto("send")
    /\ UNCHANGED <<op, filial_id, patient, headers, conn, attempts, raw, root, ok,
                   result, comment, pcode, changes, ret, error>>

\* client_add, lines 227-258
BuildClientAdd ==
    /\ pc = "build" /\ op = ADD
    /\ LET p == IF patient = None THEN TEST_PATIENT ELSE patient[1]
       IN  /\ patient' = <<p>>
           /\ IF RaisesKeyError(p)
              THEN /\ Raise("KeyError")
                   /\ UNCHANGED <<xml_body, stdout>>
              ELSE /\ \E ts \in Timestamps, id \in MsgIds :
                        xml_body' = <<[tag |-> "WEB_CLIENT_ADD",
                                       MSH |-> build_msh_xml("CLIENT_ADD", None, ts, id),
                                       BODY |-> client_add_in(p)]>>
                   /\ Echo("REQUEST", ADD)
                   /\ Goto("send")
                   /\ UNCHANGED error
    /\ UNCHANGED <<op, filial_id, headers, conn, attempts, raw, root, ok,
                   result, comment, pcode, changes, ret>>

\* the filial_id argument each call gives _send_request (lines 184, 260)
send_filial == IF op = CCL THEN filial_id ELSE None

\* _send_request, lines 119-128: headers, request object, SSL context
PrepareRequest ==
    /\ pc = "send"
    /\ headers' = {"Content-Type", "Accept"}
                  \cup (IF send_filial # None THEN {"X-Forwarded-Host"} ELSE {})
    /\ \/ Goto("urlopen") /\ UNCHANGED error
       \/ Raise("SSLError")      \* load_cert_chain cannot load the key material
    /\ UNCHANGED <<op, filial_id, patient, xml_body, conn, attempts, raw, root, ok,
                   result, comment, pcode, changes, ret, stdout>>

\* where a failed urlopen continues after a retry-on-failure change
urlopen_failure_exit_retry == "urlopen"

\* line 131: URLError and timeouts are not caught, they leave the call
urlopen_failure_exit == "raised"

\* line 131: urlopen(req, context=ctx, timeout=30)
Urlopen ==
    /\ pc = "urlopen"
    /\ attempts' = attempts + 1
    /\ \/ \* a response with a 2xx status: the with block is entered
          /\ conn' = "open" /\ Goto("read") /\ UNCHANGED error
       \/ \* HTTPError: the exception carries the open response
          /\ conn' = "open" /\ Goto("http_error") /\ UNCHANGED error
       \/ \* no response: urllib closes the connection and raises
          /\ conn' = "closed"
          /\ \E e \in {"URLError", "timeout"} : error' = e
          /\ Goto(urlopen_failure_exit)
    /\ UNCHANGED <<op, filial_id, patient, xml_body, headers, raw, root, ok,
                   result, comment, pcode, changes, ret, stdout>>

\* lines 131-132: resp.read() inside the with block; leaving the block,
\* normally or by an exception, closes resp
Read ==
    /\ pc = "read"
    /\ conn' = "closed"
    /\ \/ \E b \in Bodies : raw' = <<b>> /\ Goto("parse") /\ UNCHANGED error
       \/ Raise("timeout") /\ UNCHANGED raw
    /\ UNCHANGED <<op, filial_id, patient, xml_body, headers, attempts, root, ok,
                   result, comment, pcode, changes, ret, stdout>>

\* where the except block continues if it swallowed the error
http_error_exit_swallow == "parse"

\* line 136: the except block re-raises
http_error_exit == "raised"

\* lines 133-136: except HTTPError: read the body, print it, re-raise.
\* Reading the body to its end makes http.client close the connection;
\* nothing closes it when exc.read() itself fails.
HTTPErrorRead ==
    /\ pc = "http_error"
    /\ \/ \E b \in Bodies, code \in HttpStatus :
            /\ raw' = <<b>> /\ conn' = "closed"
            /\ Echo("WARN", code)
            /\ error' = "HTTPError"
            /\ Goto(http_error_exit)
       \/ /\ Raise("timeout")
          /\ UNCHANGED <<raw, conn, stdout>>
    /\ UNCHANGED <<op, filial_id, patient, xml_body, headers, attempts, root, ok,
                   result, comment, pcode, changes, ret>>

\* lines 138-141: decode, strip namespaces, ET.fromstring
Parse ==
    /\ pc = "parse"
    /\ CASE raw[1].kind = "undecodable" -> Raise("UnicodeDecodeError") /\ UNCHANGED root
         [] raw[1].kind = "malformed" -> Raise("ParseError") /\ UNCHANGED root
         [] OTHER -> root' = raw[1].doc /\ Goto("validate") /\ UNCHANGED error
    /\ UNCHANGED <<op, filial_id, patient, xml_body, headers, conn, attempts, raw, ok,
                   result, comment, pcode, changes, ret, stdout>>

out_tag == IF op = CCL THEN "CLIENTS_CHANGE_LIST_OUT" ELSE "CLIENT_ADD_OUT"

\* lines 185-186 and 261-262: _check_msa, then _spresult
Validate ==
    /\ pc = "validate"
    /\ LET doc == root[1]
           sp == spresult(doc, out_tag)
           is_ok == check_msa(doc)
       IN  /\ ok' = is_ok
           /\ IF is_ok THEN UNCHANGED stdout
              ELSE Echo("MSA", <<findtext(doc.MSA1, ""), findtext(doc.MSA3, "")>>)
           /\ IF sp.raised
              THEN Raise("ValueError") /\ UNCHANGED <<result, comment>>
              ELSE /\ result' = sp.result /\ comment' = sp.comment
                   /\ Goto("extract") /\ UNCHANGED error
    /\ UNCHANGED <<op, filial_id, patient, xml_body, headers, conn, attempts, raw, root,
                   pcode, changes, ret>>

\* clients_change_list, lines 188-213
ExtractChangeList ==
    /\ pc = "extract" /\ op = CCL
    /\ changes' = IF populate(ok, result) THEN extract_changes(root[1]) ELSE <<>>
    /\ stdout' = stdout \o <<[line |-> "SPRESULT", val |-> result],
                            [line |-> "SPCOMMENT", val |-> comment],
                            IF populate(ok, result)
                            THEN [line |-> "COUNT", val |-> Len(changes')]
                            ELSE [line |-> "XML", val |-> 0]>>
    /\ ret' = <<changes'>>
    /\ Goto("returned")
    /\ UNCHANGED <<op, filial_id, patient, xml_body, headers, conn, attempts, raw, root,
                   ok, result, comment, pcode, error>>

\* client_add, lines 263-274
ExtractClientAdd ==
    /\ pc = "extract" /\ op = ADD
    /\ pcode' = findfield(root[1], "CLIENT_ADD_OUT", "PCODE", "")
    /\ stdout' = stdout \o <<[line |-> "SPRESULT", val |-> result],
                            [line |-> "SPCOMMENT", val |-> comment]>>
                        \o (IF pcode' # "" THEN <<[line |-> "PCODE", val |-> pcode']>> ELSE <<>>)
                        \o (IF ~ok \/ result # 1 THEN <<[line |-> "XML", val |-> 0]>> ELSE <<>>)
    /\ ret' = <<[pcode |-> pcode', spresult |-> result, spcomment |-> comment]>>
    /\ Goto("returned")
    /\ UNCHANGED <<op, filial_id, patient, xml_body, headers, conn, attempts, raw, root,
                   ok, result, comment, changes, error>>

Next ==
    \/ CallClientsChangeList(CallFilials)
    \/ CallClientAdd(CallPatients)
    \/ BuildChangeList
    \/ BuildClientAdd
    \/ PrepareRequest
    \/ Urlopen
    \/ Read
    \/ HTTPErrorRead
    \/ Parse
    \/ Validate
    \/ ExtractChangeList
    \/ ExtractClientAdd

Spec == Init /\ [][Next]_vars

\* envelope construction alone, over the larger input sets
BuildNext ==
    \/ CallClientsChangeList(BuildFilials)
    \/ CallClientAdd(BuildPatients)
    \/ BuildChangeList
    \/ BuildClientAdd

BuildSpec == Init /\ [][BuildNext]_vars

----------------------------------------------------------------------------
(* Vocabulary of the properties *)

Terminal == pc \in {"returned", "raised"}

\* the parsed response of the current call
Doc == root[1]

\* the acknowledgment status of the response, "" when the field is absent
Ack == findtext(Doc.MSA1, "")

\* the optional SPRESULT element of the call's output section
ResultField ==
    IF Section(Doc, out_tag) = <<>> THEN <<>> ELSE Section(Doc, out_tag)[1].SPRESULT

\* the optional SPCOMMENT element of the call's output section
CommentField ==
    IF Section(Doc, out_tag) = <<>> THEN <<>> ELSE Section(Doc, out_tag)[1].SPCOMMENT

\* decimal renderings of the integers a short text can denote
IntTexts == {Str(n) : n \in (0 - 20)..120}

\* the result field holds no text, or a decimal integer
ResultWellFormed ==
    ResultField = <<>> \/ ResultField[1] = <<>> \/ Strip(ResultField[1]) \in IntTexts

\* the result field holds a character that cannot occur in an integer
ResultNonNumeric ==
    ResultField # <<>> /\ \E i \in 1..Len(ResultField[1]) : ResultField[1][i] = "x"

Printed(line, val) ==
    \E i \in 1..Len(stdout) : stdout[i].line = line /\ stdout[i].val = val

\* what clients_change_list returns for a successful response without records
EmptyBatch == <<extract_changes([CHANGES |-> <<>>])>>

Rank(p) ==
    CASE p = "build" -> 1
      [] p = "send" -> 2
      [] p = "urlopen" -> 3
      [] p \in {"read", "http_error"} -> 4
      [] p = "parse" -> 5
      [] p = "validate" -> 6
      [] p = "extract" -> 7
      [] p \in {"returned", "raised"} -> 8

Visited(p) == \E i \in 1..Len(trace) : trace[i] = p

Body == xml_body[1].BODY

HasElement(key) == \E i \in 1..Len(Body) : Body[i].tag = key

ElementText(key) == Body[CHOOSE i \in 1..Len(Body) : Body[i].tag = key].text

----------------------------------------------------------------------------
(* C1: client_add returns a non-empty pcode only if the acknowledgment is   *)
(* "AA" and the result code is 1; in every other case the returned pcode is *)
(* empty even when the document has a PCODE field, and the returned result  *)
(* code and comment are those of the document.                              *)
C1_PcodeOnlyOnSuccess ==
    (op = ADD /\ pc = "returned" /\ Doc.MSA1 # <<>>) =>
        /\ ret[1].pcode # "" => (Ack = "AA" /\ result = 1)
        /\ ret[1].spresult = result
        /\ ret[1].spcomment = findtext(CommentField, "")

(* C2: clients_change_list returns a non-empty list only if the             *)
(* acknowledgment is "AA" and the result code is 1; for a well-formed       *)
(* response with another acknowledgment or result code it returns the empty *)
(* list and does not raise, even when change elements are present.          *)
C2_ListOnlyOnSuccess ==
    (op = CCL /\ root # None /\ Terminal) =>
        /\ (pc = "returned" /\ ret[1] # <<>>) => (Ack = "AA" /\ result = 1)
        /\ ResultWellFormed =>
              /\ pc = "returned"
              /\ (Ack # "AA" \/ result # 1) => ret[1] = <<>>

C2_Witness ==
    /\ op = CCL /\ pc = "returned"
    /\ Ack = "AE" /\ result = 1 /\ Len(Doc.CHANGES) = MaxChanges
    /\ ret[1] = <<>>

(* C3: a response without the MSA.1 field makes the call end in ParseError; *)
(* it never returns a normal result for such a response.                    *)
C3_MissingAckIsParseError ==
    (root # None /\ Doc.MSA1 = <<>> /\ Terminal /\ error # "ValueError") =>
        (pc = "raised" /\ error = "ParseError")

(* C4: a transport failure (timeout, connection error, HTTP error status)   *)
(* or an undecodable or malformed body aborts the call: validation and      *)
(* extraction are never reached and nothing is returned.                    *)
C4_InfrastructureFailureAborts ==
    error \in {"timeout", "URLError", "HTTPError", "UnicodeDecodeError", "ParseError"} =>
        /\ pc = "raised"
        /\ ~Visited("validate") /\ ~Visited("extract")
        /\ root = None /\ ret = None

C4_Witness ==
    /\ pc = "raised" /\ error = "HTTPError"
    /\ raw # None /\ raw[1].kind = "xml" /\ raw[1].doc[1].MSA1 = <<"AA">>
    /\ ret = None

C6_ExactlyOneAttempt ==
    /\ \A i, j \in 1..Len(trace) : i < j => Rank(trace[i]) < Rank(trace[j])
    /\ attempts <= 1
    /\ Terminal => attempts = 1

(* C6 amended: every call goes through the positions in order without       *)
(* repeating one or going back, makes at most one network attempt, exactly  *)
(* one once urlopen has been called and none when it fails earlier (missing *)
(* required key, key material not loadable), and ends either returned with  *)
(* a value or raised with an error, never both.                             *)
C6_LinearSingleAttempt ==
    /\ \A i, j \in 1..Len(trace) : i < j => Rank(trace[i]) < Rank(trace[j])
    /\ attempts = IF \E i \in 1..Len(trace) : trace[i] = "urlopen" /\ i < Len(trace)
                  THEN 1 ELSE 0
    /\ Terminal => /\ (pc = "returned") = (ret # None)
                   /\ (pc = "raised") = (error # "")
                   /\ (attempts = 0) = (error \in {"KeyError", "SSLError"})

C6_Witness ==
    /\ attempts = 1
    /\ trace = <<"build", "send", "urlopen", "read", "parse", "validate",
                 "extract", "returned">>

(* C7: no call ends with its connection still open, on any exit path.       *)
C7_ConnectionReleased ==
    Terminal => conn # "open"

(* C8: a CLIENT_ADD header has no MSH.99 element; a CLIENTS_CHANGE_LIST     *)
(* header has one, and its text denotes the branch id that was passed in.   *)
C8_BranchIdInHeader ==
    (pc = "send") =>
        LET msh == xml_body[1].MSH
        IN  /\ op = ADD => (msh.MSG2 = "CLIENT_ADD" /\ msh.MSH99 = <<>>)
            /\ op = CCL => /\ msh.MSG2 = "CLIENTS_CHANGE_LIST"
                           /\ msh.MSH99 # <<>>
                           /\ ~PyInt(msh.MSH99[1]).raised
                           /\ PyInt(msh.MSH99[1]).value = filial_id[1]

C8_Witness ==
    /\ pc = "send" /\ op = CCL /\ filial_id = <<0>>
    /\ xml_body[1].MSH.MSH99 = << <<"0">> >>

(* C9 as stated: for every patient record, also one that does not supply    *)
(* them, the body has the three required elements, and has an optional      *)
(* element exactly when that field's value is non-empty.                    *)
C9_BodyForEveryRecord ==
    (op = ADD /\ pc \notin {"idle", "build"}) =>
        /\ xml_body # None
        /\ \A k \in RequiredKeys : HasElement(k)
        /\ \A k \in OptionalKeys :
              HasElement(k) = (k \in DOMAIN patient[1] /\ patient[1][k] # "")

(* C9 amended: for every patient record that supplies the three required    *)
(* keys, the body has the three required elements with the record's values, *)
(* empty ones included, and has an optional element exactly when that       *)
(* field's value is non-empty, never an empty element; a record that lacks  *)
(* a required key makes the call raise KeyError before any body is built.   *)
C9_BodyForCompleteRecord ==
    (op = ADD /\ pc \notin {"idle", "build"}) =>
        IF RequiredKeys \subseteq DOMAIN patient[1]
        THEN /\ pc = "send" /\ xml_body # None
             /\ \A k \in RequiredKeys : HasElement(k) /\ ElementText(k) = patient[1][k]
             /\ \A k \in OptionalKeys :
                   HasElement(k) = (k \in DOMAIN patient[1] /\ patient[1][k] # "")
             /\ \A i \in 1..Len(Body) :
                   Body[i].tag \in OptionalKeys => Body[i].text # ""
        ELSE pc = "raised" /\ error = "KeyError" /\ xml_body = None

C9_Witness ==
    /\ op = ADD /\ pc = "send"
    /\ patient[1]["LASTNAME"] = "" /\ HasElement("LASTNAME")
    /\ "SNILS" \in DOMAIN patient[1] /\ patient[1]["SNILS"] = ""
    /\ ~HasElement("SNILS")

(* C10 as stated: when the output section or its result field is absent the *)
(* code is -999 and the comment is empty; when the field is present the     *)
(* code is its integer value; _spresult never raises.                       *)
C10_NeverRaises ==
    (root # None /\ pc # "validate") =>
        /\ error # "ValueError"
        /\ ResultField = <<>> => (result = SENTINEL /\ comment = "")
        /\ (ResultField # <<>> /\ Strip(ResultField[1]) \in IntTexts) =>
              Str(result) = Strip(ResultField[1])

(* C10 amended: when the output section is absent the code is -999 and the  *)
(* comment is empty; when the result field is absent or empty the code is   *)
(* -999 and the comment is the text of the comment field, empty when that   *)
(* is absent; when the result field holds a decimal integer, surrounding    *)
(* whitespace allowed, the code is that integer; when it holds a            *)
(* non-numeric character _spresult raises ValueError and the call fails     *)
(* without a result.                                                        *)
C10_SentinelOrIntegerOrValueError ==
    (root # None /\ pc # "validate") =>
        /\ ResultWellFormed => error # "ValueError"
        /\ ResultNonNumeric => (pc = "raised" /\ error = "ValueError" /\ ret = None)
        /\ error # "ValueError" =>
              /\ Section(Doc, out_tag) = <<>> => (result = SENTINEL /\ comment = "")
              /\ (ResultField = <<>> \/ ResultField[1] = <<>>) => result = SENTINEL
              /\ (ResultField # <<>> /\ Strip(ResultField[1]) \in IntTexts) =>
                    Str(result) = Strip(ResultField[1])
              /\ comment = findtext(CommentField, "")

C10_Witness ==
    /\ pc = "returned" /\ Section(Doc, out_tag) # <<>>
    /\ ResultField = <<>> /\ result = SENTINEL /\ comment = "dup"

====
